---- MODULE Spec2Model ----
(***************************************************************************)
(* DevForge: the Chronicle recorder (agents/chronicle/chronicle_agent.py)  *)
(* and the pipeline orchestrator (pipeline.py).                            *)
(*                                                                         *)
(* The specifications share the recorder:                                  *)
(*   Spec          one caller drives the recorder's public operations;     *)
(*   PipelineSpec  run_full_pipeline drives the recorder, stage by stage,  *)
(*                 every write to storage succeeding;                      *)
(*   FaultySpec    the same run on storage whose writes may fail;          *)
(*   ThreadSpec    several threads call record_* on the same recorder, the *)
(*                 steps of _record_event interleaving.                    *)
(***************************************************************************)
EXTENDS Integers, Sequences, FiniteSets, TLC

\* ------------------------------------------------------------------------
\* Bounds of the model
\* ------------------------------------------------------------------------
MaxEvents == 4
MaxSessions == 2
MaxRuns == 2
MaxThreadCalls == 2

\* ------------------------------------------------------------------------
\* Values
\* ------------------------------------------------------------------------
None == "None"         \* None where the other values are strings
Nothing == [none |-> TRUE]  \* None where the other values are dicts
NoDuration == -1       \* None as an event's duration_ms

Agents == {"pm", "dev"}
ActionNames == {"build"}
FinalStatuses == {"success"}
FeatureIds == {"demo"}
Threads == {"t1", "t2"}

\* metadata of record_agent_action: absent, or carrying a duration
Metadatas == {Nothing, [duration_ms |-> 5000]}

VARIABLES
    \* ChronicleAgent fields
    session_id,       \* self.session_id (None before the first start_session)
    event_log,        \* self.event_log
    lock,             \* self.lock: "free" or the thread holding it
    \* what end_session returned in this session (Nothing before it did),
    \* and the report files written so far
    report,
    chronicle_files,
    \* history of the recorder's use (not program state)
    phase,            \* "never" | "open" | "ended"
    started_from,     \* phase in which the last start_session was called
    calls,            \* recorder calls made since (and including) start_session
    sessions,         \* number of start_session calls
    \* run_full_pipeline
    pc,               \* position of the run
    source_codebase,  \* TRUE when a source codebase was supplied
    results,          \* the run record
    qa_result,        \* the testing stage's result (Nothing before it returned)
    invoked,          \* the collaborators invoked in this run, in order
    raised,           \* the stage whose collaborator raised (None if none)
    pipeline_writes,  \* writes of data/<pipeline_run_id>.json in this run
    runs,             \* number of run_full_pipeline calls
    faulty,           \* TRUE when writes to storage may fail
    \* threads calling record_*
    tpc,              \* per thread: position inside record_* / _record_event
    tev,              \* per thread: the event dict under construction
    tcalls,           \* per thread: record_* calls started
    tdone,            \* per thread: which of start_session, end_session returned
    tsum,             \* per thread: what _generate_report has built so far
    treport           \* per thread: the report its end_session returned

chronicle_vars == <<session_id, event_log, lock, report, chronicle_files>>
history_vars == <<phase, started_from, calls, sessions>>
pipeline_vars == <<pc, source_codebase, results, qa_result, invoked, raised,
                   pipeline_writes, runs, faulty>>
race_vars == <<tdone, tsum, treport>>
thread_vars == <<tpc, tev, tcalls, race_vars>>
vars == <<chronicle_vars, history_vars, pipeline_vars, thread_vars>>

\* ------------------------------------------------------------------------
\* Events, as the record_* operations build them (timestamps and free text
\* left out)
\* ------------------------------------------------------------------------
SessionStartEvent(feature_id, trigger) ==
    [type |-> "session_start", feature_id |-> feature_id, trigger |-> trigger]

\* metadata.get("duration_ms") if metadata else None
DurationOf(metadata) ==
    IF metadata = Nothing THEN NoDuration
    ELSE IF "duration_ms" \in DOMAIN metadata THEN metadata.duration_ms
    ELSE NoDuration

AgentActionEvent(agent_name, action, metadata) ==
    [type |-> "agent_action", agent |-> agent_name, action |-> action,
     duration_ms |-> DurationOf(metadata)]

HandoffEvent(from_agent, to_agent, artifact_name) ==
    [type |-> "handoff", from_agent |-> from_agent, to_agent |-> to_agent,
     artifact |-> artifact_name]

DecisionEvent(agent_name, decision) ==
    [type |-> "decision", agent |-> agent_name, decision |-> decision]

CollaborationEvent(agents, activity) ==
    [type |-> "collaboration", agents |-> agents, activity |-> activity]

CheckpointEvent(stage, status) ==
    [type |-> "checkpoint", stage |-> stage, status |-> status]

IssueEventEmptyUnresolved(agent_name, issue_type, description, resolution) ==
    [type |-> "issue", agent |-> agent_name, issue_type |-> issue_type,
     description |-> description, resolution |-> resolution,
     resolved |-> (resolution \notin {None, ""})]

IssueEvent(agent_name, issue_type, description, resolution) ==
    [type |-> "issue", agent |-> agent_name, issue_type |-> issue_type,
     description |-> description, resolution |-> resolution,
     resolved |-> (resolution # None)]

SessionEndEvent(final_status, total_events) ==
    [type |-> "session_end", final_status |-> final_status,
     total_events |-> total_events]

\* ------------------------------------------------------------------------
\* _record_event, taken as one step (a single caller): number, then append
\* ------------------------------------------------------------------------
RecordEventRenumbers(log, event) ==
    [i \in 1..(Len(log) + 1) |->
        IF i <= Len(log) THEN [log[i] EXCEPT !.sequence_number = i + 1]
        ELSE event @@ [sequence_number |-> 1]]

RecordEventZeroBased(log, event) ==
    Append(log, event @@ [sequence_number |-> Len(log)])

RecordEvent(log, event) ==
    Append(log, event @@ [sequence_number |-> Len(log) + 1])

\* start_session: the log is reset, then session_start is recorded
StartSessionLogKeepsOld(log, feature_id, trigger) ==
    RecordEvent(log, SessionStartEvent(feature_id, trigger))

StartSessionLog(log, feature_id, trigger) ==
    RecordEvent(<<>>, SessionStartEvent(feature_id, trigger))

\* end_session: total_events is len(self.event_log) read while the event
\* dict is built, before _record_event appends it
EndSessionLogCountsItself(log, final_status) ==
    RecordEvent(log, SessionEndEvent(final_status, Len(log) + 1))

EndSessionLog(log, final_status) ==
    RecordEvent(log, SessionEndEvent(final_status, Len(log)))

\* ------------------------------------------------------------------------
\* _generate_report: one pass over the log, bucketing by type
\* ------------------------------------------------------------------------
OfType(log, t) == SelectSeq(log, LAMBDA e : e.type = t)

ActionAgents(log) ==
    {log[i].agent : i \in {j \in DOMAIN log : log[j].type = "agent_action"}}

\* _calculate_agent_stats: per agent, its agent_action events in log order
\* (avg_duration_ms, a float quotient, is not modelled)
SampleSize == 5   \* actions[:5]

ActionsOf(log, agent) ==
    SelectSeq(log, LAMBDA e : e.type = "agent_action" /\ e.agent = agent)

\* sum(a.get("duration_ms", 0) for a in actions if a.get("duration_ms"))
RECURSIVE SumDurations(_)
SumDurations(actions) ==
    IF actions = <<>> THEN 0
    ELSE LET d == actions[Len(actions)].duration_ms
         IN  SumDurations(SubSeq(actions, 1, Len(actions) - 1))
             + (IF d # NoDuration /\ d # 0 THEN d ELSE 0)

SampleActionsAll(actions) == [i \in DOMAIN actions |-> actions[i].action]

SampleActions(actions) ==
    [i \in 1..(IF Len(actions) < SampleSize THEN Len(actions) ELSE SampleSize)
        |-> actions[i].action]

CalculateAgentStats(log) ==
    [agent \in ActionAgents(log) |->
        [actions_count |-> Len(ActionsOf(log, agent)),
         total_duration_ms |-> SumDurations(ActionsOf(log, agent)),
         actions |-> SampleActions(ActionsOf(log, agent))]]

\* _generate_timeline: one entry per event of the log
GenerateTimeline(log) ==
    [i \in DOMAIN log |->
        [sequence |-> log[i].sequence_number, type |-> log[i].type]]

\* _identify_bottlenecks: event.get("duration_ms") is falsy for None and 0
LongExecutionMs == 60000   \* if event["duration_ms"] > 60000

IsLongExecutionInclusive(e) ==
    /\ e.type = "agent_action"
    /\ e.duration_ms # NoDuration /\ e.duration_ms # 0
    /\ e.duration_ms >= LongExecutionMs

IsLongExecution(e) ==
    /\ e.type = "agent_action"
    /\ e.duration_ms # NoDuration /\ e.duration_ms # 0
    /\ e.duration_ms > LongExecutionMs

LongExecutions(log) ==
    LET long == SelectSeq(log, IsLongExecution)
    IN  [i \in DOMAIN long |->
            [type |-> "long_execution", agent |-> long[i].agent,
             action |-> long[i].action, duration_ms |-> long[i].duration_ms]]

UnresolvedIssues(log) ==
    LET unresolved == SelectSeq(log, LAMBDA e : e.type = "issue" /\ ~e.resolved)
    IN  IF unresolved # <<>>
        THEN <<[type |-> "unresolved_issues", count |-> Len(unresolved),
                issues |-> [i \in DOMAIN unresolved |->
                               unresolved[i].description]]>>
        ELSE <<>>

IdentifyBottlenecks(log) == LongExecutions(log) \o UnresolvedIssues(log)

\* _generate_recommendations. A recommendation is a string built from a
\* fixed text and, for the caching one, from agent, action and count: it is
\* kept as the record of its kind and of what is interpolated.
HandoffLimit == 5   \* if len(handoff_events) > 5
RetryLimit == 3     \* if count > 3

\* retry_actions: the (agent, action) keys in order of first occurrence ...
RECURSIVE RetryKeys(_)
RetryKeys(actions) ==
    IF actions = <<>> THEN <<>>
    ELSE LET front == RetryKeys(SubSeq(actions, 1, Len(actions) - 1))
             key == <<actions[Len(actions)].agent, actions[Len(actions)].action>>
         IN  IF \E i \in DOMAIN front : front[i] = key
             THEN front
             ELSE Append(front, key)

\* ... and the count of each
RetryCount(actions, key) ==
    Cardinality({i \in DOMAIN actions :
                    <<actions[i].agent, actions[i].action>> = key})

IsRetryPatternInclusive(count) == count >= RetryLimit

IsRetryPattern(count) == count > RetryLimit

CachingRecommendations(log) ==
    LET actions == OfType(log, "agent_action")
        keys == RetryKeys(actions)
        all == [i \in DOMAIN keys |->
                   [kind |-> "caching", agent |-> keys[i][1],
                    action |-> keys[i][2],
                    count |-> RetryCount(actions, keys[i])]]
    IN  SelectSeq(all, LAMBDA r : IsRetryPattern(r.count))

GeneralRecommendations ==
    <<[kind |-> "general",
       text |-> "All agent interactions were logged successfully"],
      [kind |-> "general",
       text |-> "Review the handoff chain for potential optimizations"],
      [kind |-> "general",
       text |-> "Consider adding more granular checkpoints for better visibility"]>>

GenerateRecommendationsInclusive(log) ==
    (IF Len(OfType(log, "handoff")) >= HandoffLimit
     THEN <<[kind |-> "parallelize"]>> ELSE <<>>)
    \o CachingRecommendations(log)
    \o GeneralRecommendations

GenerateRecommendations(log) ==
    (IF Len(OfType(log, "handoff")) > HandoffLimit
     THEN <<[kind |-> "parallelize"]>> ELSE <<>>)
    \o CachingRecommendations(log)
    \o GeneralRecommendations

GenerateReportSkipLifecycle(log, sid) ==
    [session_id |-> sid,
     summary |-> [total_events |-> Len(log) - 2,
                  total_agents_involved |-> Cardinality(ActionAgents(log)),
                  total_handoffs |-> Len(OfType(log, "handoff")),
                  total_decisions |-> Len(OfType(log, "decision")),
                  total_issues |-> Len(OfType(log, "issue")),
                  total_collaborations |-> Len(OfType(log, "collaboration"))],
     agent_statistics |-> CalculateAgentStats(log),
     timeline |-> GenerateTimeline(log),
     bottlenecks |-> IdentifyBottlenecks(log),
     recommendations |-> GenerateRecommendations(log)]

GenerateReport(log, sid) ==
    [session_id |-> sid,
     summary |-> [total_events |-> Len(log),
                  total_agents_involved |-> Cardinality(ActionAgents(log)),
                  total_handoffs |-> Len(OfType(log, "handoff")),
                  total_decisions |-> Len(OfType(log, "decision")),
                  total_issues |-> Len(OfType(log, "issue")),
                  total_collaborations |-> Len(OfType(log, "collaboration"))],
     agent_statistics |-> CalculateAgentStats(log),
     timeline |-> GenerateTimeline(log),
     bottlenecks |-> IdentifyBottlenecks(log),
     recommendations |-> GenerateRecommendations(log)]

\* ------------------------------------------------------------------------
\* Initial state: a constructed ChronicleAgent, no run, idle threads
\* ------------------------------------------------------------------------
NoResults == [steps |-> <<>>, status |-> None, error |-> None,
              feature_id |-> None, chronicle |-> Nothing]

Fresh ==
    /\ session_id = None
    /\ event_log = <<>>
    /\ lock = "free"
    /\ report = Nothing
    /\ chronicle_files = {}
    /\ phase = "never"
    /\ started_from = None
    /\ calls = 0
    /\ sessions = 0
    /\ pc = "idle"
    /\ source_codebase = FALSE
    /\ results = NoResults
    /\ qa_result = Nothing
    /\ invoked = <<>>
    /\ raised = None
    /\ pipeline_writes = 0
    /\ runs = 0
    /\ tpc = [t \in Threads |-> "idle"]
    /\ tev = [t \in Threads |-> Nothing]
    /\ tcalls = [t \in Threads |-> 0]
    /\ tdone = [t \in Threads |-> {}]
    /\ tsum = [t \in Threads |-> Nothing]
    /\ treport = [t \in Threads |-> Nothing]

\* storage whose writes succeed
Init == Fresh /\ faulty = FALSE

\* ------------------------------------------------------------------------
\* The recorder's operations, one caller (Spec)
\* ------------------------------------------------------------------------
start_session(feature_id, trigger) ==
    /\ sessions < MaxSessions
    /\ session_id' = feature_id
    /\ event_log' = StartSessionLog(event_log, feature_id, trigger)
    /\ phase' = "open"
    /\ started_from' = phase
    /\ calls' = 1
    /\ sessions' = sessions + 1
    /\ report' = Nothing
    /\ UNCHANGED <<lock, chronicle_files, pipeline_vars, thread_vars>>

\* every record_* operation builds its event and hands it to _record_event
RecordWithin(event, max) ==
    /\ Len(event_log) < max
    /\ event_log' = RecordEvent(event_log, event)
    /\ calls' = calls + 1
    /\ UNCHANGED <<session_id, lock, report, chronicle_files, phase,
                   started_from, sessions, pipeline_vars, thread_vars>>

Record(event) == RecordWithin(event, MaxEvents)

record_agent_action(agent_name, action, metadata) ==
    Record(AgentActionEvent(agent_name, action, metadata))

record_handoff(from_agent, to_agent, artifact_name) ==
    Record(HandoffEvent(from_agent, to_agent, artifact_name))

record_decision(agent_name, decision) ==
    Record(DecisionEvent(agent_name, decision))

record_collaboration(agents, activity) ==
    Record(CollaborationEvent(agents, activity))

record_checkpoint(stage, status) ==
    Record(CheckpointEvent(stage, status))

record_issue(agent_name, issue_type, description, resolution) ==
    Record(IssueEvent(agent_name, issue_type, description, resolution))

EndSessionWithin(final_status, max) ==
    /\ Len(event_log) < max
    /\ event_log' = EndSessionLog(event_log, final_status)
    /\ report' = GenerateReport(event_log', session_id)
    /\ chronicle_files' = chronicle_files \cup {session_id}
    /\ phase' = "ended"
    /\ calls' = calls + 1
    /\ UNCHANGED <<session_id, lock, started_from, sessions, pipeline_vars,
                   thread_vars>>

end_session(final_status) == EndSessionWithin(final_status, MaxEvents)

StartSessionStep == \E f \in FeatureIds : start_session(f, "manual")

AgentActionStep ==
    \E a \in Agents, x \in ActionNames :
        record_agent_action(a, x, Nothing)

HandoffStep == record_handoff("pm", "dev", "spec")

DecisionStep == record_decision("pm", "stack")

CollaborationStep == record_collaboration(<<"pm", "dev">>, "pairing")

CheckpointStep == record_checkpoint("development", "success")

IssueStep ==
    \E r \in {None, "fixed"} : record_issue("dev", "bug", "broken", r)

EndSessionStep == \E s \in FinalStatuses : end_session(s)

RecordStep ==
    \/ AgentActionStep
    \/ HandoffStep
    \/ DecisionStep
    \/ CollaborationStep
    \/ CheckpointStep
    \/ IssueStep

Next ==
    \/ StartSessionStep
    \/ AgentActionStep
    \/ HandoffStep
    \/ DecisionStep
    \/ CollaborationStep
    \/ CheckpointStep
    \/ IssueStep
    \/ EndSessionStep

Spec == Init /\ [][Next]_vars

\* ------------------------------------------------------------------------
\* Claims about the recorder under one caller (Spec)
\* ------------------------------------------------------------------------
CountType(log, t) == Cardinality({i \in DOMAIN log : log[i].type = t})

TypesOf(log) == [i \in DOMAIN log |-> log[i].type]

Last(log) == log[Len(log)]

\* C1: once a session was started, after any sequence of recorder calls the
\* i-th event of event_log carries sequence_number i, and the log holds one
\* event per call made in the session (start_session included).
C1_SequenceNumbersDense ==
    phase # "never" =>
        /\ Len(event_log) = calls
        /\ \A i \in DOMAIN event_log : event_log[i].sequence_number = i

\* a session that went on after its end_session: calls of every kind
C1_Witness ==
    /\ Len(event_log) = MaxEvents
    /\ \E i \in DOMAIN event_log :
          i < Len(event_log) /\ event_log[i].type = "session_end"
    /\ \E i \in DOMAIN event_log : event_log[i].type = "handoff"

\* C6: each end_session call appends exactly one event, a session_end whose
\* total_events is the length of the log just before the append.
C6_EndSessionAppendsOne ==
    [][EndSessionStep =>
          /\ Len(event_log') = Len(event_log) + 1
          /\ SubSeq(event_log', 1, Len(event_log)) = event_log
          /\ Last(event_log').type = "session_end"
          /\ Last(event_log').total_events = Len(event_log)
          /\ Last(event_log').total_events + 1 = Len(event_log')]_vars

C6_Witness ==
    /\ phase = "ended"
    /\ Len(event_log) = 3
    /\ Last(event_log).type = "session_end"
    /\ Last(event_log).total_events = 2

\* C7: the report end_session returns counts the closed log: total_events is
\* its length (session_start and session_end included) and total_handoffs,
\* total_decisions, total_issues, total_collaborations count the events of
\* that type; start, one action, one handoff, end gives 4 events, 1 handoff.
C7_ReportCountsLog ==
    [][EndSessionStep =>
          /\ report'.summary.total_events = Len(event_log')
          /\ report'.summary.total_handoffs = CountType(event_log', "handoff")
          /\ report'.summary.total_decisions = CountType(event_log', "decision")
          /\ report'.summary.total_issues = CountType(event_log', "issue")
          /\ report'.summary.total_collaborations =
                 CountType(event_log', "collaboration")
          /\ (TypesOf(event_log') = <<"session_start", "agent_action",
                                      "handoff", "session_end">>
                 => /\ report'.summary.total_events = 4
                    /\ report'.summary.total_handoffs = 1)]_vars

C7_Witness ==
    /\ phase = "ended"
    /\ TypesOf(event_log) = <<"session_start", "agent_action", "handoff",
                              "session_end">>
    /\ report # Nothing
    /\ report.summary.total_events = 4
    /\ report.summary.total_handoffs = 1

\* C9: after end_session has returned, no record_* call made before the next
\* start_session changes the event log.
C9_LogFrozenAfterEnd ==
    [][(phase = "ended" /\ RecordStep) => event_log' = event_log]_vars

\* C10: right after any start_session call, whatever the recorder's state
\* before it, event_log is exactly one session_start event numbered 1.
C10_StartSessionResetsLog ==
    [][StartSessionStep =>
          /\ Len(event_log') = 1
          /\ event_log'[1].type = "session_start"
          /\ event_log'[1].sequence_number = 1]_vars

\* a session started after an ended one ...
C10_Witness ==
    /\ started_from = "ended"
    /\ calls = 1
    /\ TypesOf(event_log) = <<"session_start">>

\* ... after one left open, and on a recorder never started
C10_WitnessOpen ==
    started_from = "open" /\ calls = 1 /\ TypesOf(event_log) = <<"session_start">>

C10_WitnessNever ==
    started_from = "never" /\ calls = 1 /\ TypesOf(event_log) = <<"session_start">>

\* C11: between two start_session calls the log only grows at its end: each
\* record_* call and each end_session call leaves every event already in the
\* log as it was, so the log before the call is a prefix of the log after.
C11_LogAppendOnly ==
    [][(RecordStep \/ EndSessionStep) =>
          /\ Len(event_log') > Len(event_log)
          /\ \A i \in DOMAIN event_log : event_log'[i] = event_log[i]]_vars

\* a log that grew by record_* calls both before and after an end_session
C11_Witness ==
    /\ Len(event_log) = MaxEvents
    /\ TypesOf(event_log)[2] # "session_end"
    /\ TypesOf(event_log)[3] = "session_end"
    /\ TypesOf(event_log)[4] # "session_end"

\* ------------------------------------------------------------------------
\* One session of agent actions, then its report (ReportSpec): the inputs of
\* _identify_bottlenecks and _generate_recommendations
\* ------------------------------------------------------------------------
MaxReportEvents == 6

ReportAgents == {"pm", "dev"}
ReportActions == {"build", "test"}
ReportMetadatas ==
    {Nothing, [duration_ms |-> 60000], [duration_ms |-> 60001]}

ReportStartSession ==
    /\ phase = "never"
    /\ StartSessionStep

ReportAgentAction ==
    /\ phase = "open"
    /\ \E a \in ReportAgents, x \in ReportActions, m \in ReportMetadatas :
          RecordWithin(AgentActionEvent(a, x, m), MaxReportEvents - 1)

ReportEndSession ==
    /\ phase = "open"
    /\ EndSessionWithin("success", MaxReportEvents)

ReportNext ==
    \/ ReportStartSession
    \/ ReportAgentAction
    \/ ReportEndSession

ReportSpec == Init /\ [][ReportNext]_vars

\* the report in hand is the report of the log in hand
Closed ==
    /\ phase = "ended"
    /\ report # Nothing
    /\ Last(event_log).type = "session_end"

\* C17: in the report of a closed session the long_execution bottlenecks
\* are, one for one and in log order, the agent_action events whose
\* duration_ms is more than 60000: 60001 is flagged, 60000 and a missing
\* duration are not.
FlaggedActions(log) ==
    SelectSeq(log, LAMBDA e : e.type = "agent_action" /\ e.duration_ms > 60000)

LongEntries(rep) ==
    SelectSeq(rep.bottlenecks, LAMBDA b : b.type = "long_execution")

C17_LongExecutionOver60000 ==
    Closed =>
        LET flagged == FlaggedActions(event_log)
            entries == LongEntries(report)
        IN  /\ Len(entries) = Len(flagged)
            /\ \A i \in DOMAIN entries :
                  /\ entries[i].agent = flagged[i].agent
                  /\ entries[i].action = flagged[i].action
                  /\ entries[i].duration_ms = flagged[i].duration_ms
                  /\ entries[i].duration_ms >= 60001

C17_Witness ==
    /\ Closed
    /\ \E i, j, k \in DOMAIN event_log :
          /\ event_log[i].type = "agent_action"
          /\ event_log[j].type = "agent_action"
          /\ event_log[k].type = "agent_action"
          /\ event_log[i].duration_ms = 60001
          /\ event_log[j].duration_ms = 60000
          /\ event_log[k].duration_ms = NoDuration
    /\ Len(LongEntries(report)) = 1
    /\ LongEntries(report)[1].duration_ms = 60001

\* C18: the recommendations hold a caching recommendation naming an
\* (agent, action) pair exactly when the pair occurs in more than 3
\* agent_action events: one such recommendation for 4 occurrences, none
\* for 3.
PairCount(log, agent, action) ==
    Cardinality({i \in DOMAIN log :
                    /\ log[i].type = "agent_action"
                    /\ log[i].agent = agent
                    /\ log[i].action = action})

CachingFor(rep, agent, action) ==
    SelectSeq(rep.recommendations,
              LAMBDA r : r.kind = "caching" /\ r.agent = agent
                                            /\ r.action = action)

C18_CachingOverThreeRepeats ==
    Closed =>
        \A a \in ReportAgents, x \in ReportActions :
            /\ Len(CachingFor(report, a, x)) =
                   IF PairCount(event_log, a, x) > 3 THEN 1 ELSE 0
            /\ \A i \in DOMAIN CachingFor(report, a, x) :
                  CachingFor(report, a, x)[i].count = PairCount(event_log, a, x)

C18_Witness ==
    /\ Closed
    /\ PairCount(event_log, "pm", "build") = 4
    /\ Len(CachingFor(report, "pm", "build")) = 1

C18_WitnessThree ==
    /\ Closed
    /\ PairCount(event_log, "dev", "test") = 3
    /\ PairCount(event_log, "dev", "build") = 1
    /\ Len(CachingFor(report, "dev", "test")) = 0

\* ------------------------------------------------------------------------
\* One session of issues and at most one long action, then its report
\* (IssueSpec)
\* ------------------------------------------------------------------------
MaxIssues == 3

IssueDescriptions == {"broken", "slow"}
IssueResolutions == {None, "fixed", ""}

IssueRecord ==
    /\ phase = "open"
    /\ CountType(event_log, "issue") < MaxIssues
    /\ \E d \in IssueDescriptions, r \in IssueResolutions :
          RecordWithin(IssueEvent("dev", "bug", d, r), MaxIssues + 3)

IssueLongAction ==
    /\ phase = "open"
    /\ CountType(event_log, "agent_action") < 1
    /\ RecordWithin(AgentActionEvent("dev", "build", [duration_ms |-> 60001]),
                    MaxIssues + 3)

IssueEndSession ==
    /\ phase = "open"
    /\ EndSessionWithin("success", MaxIssues + 3)

IssueNext ==
    \/ ReportStartSession
    \/ IssueRecord
    \/ IssueLongAction
    \/ IssueEndSession

IssueSpec == Init /\ [][IssueNext]_vars

\* C27: the bottlenecks hold one unresolved_issues entry when the log has
\* an issue recorded with no resolution and none otherwise; its count is
\* the number of those issues and its issues are their descriptions in log
\* order. (An issue is unresolved exactly when its resolution is None.)
NullResolution(log) ==
    SelectSeq(log, LAMBDA e : e.type = "issue" /\ e.resolution = None)

UnresolvedEntries(rep) ==
    SelectSeq(rep.bottlenecks, LAMBDA b : b.type = "unresolved_issues")

C27_UnresolvedIssuesEntry ==
    Closed =>
        LET open == NullResolution(event_log)
            entries == UnresolvedEntries(report)
        IN  /\ Len(entries) = IF open # <<>> THEN 1 ELSE 0
            /\ \A i \in DOMAIN entries :
                  /\ entries[i].count = Len(open)
                  /\ entries[i].issues =
                         [k \in DOMAIN open |-> open[k].description]
            /\ \A i \in DOMAIN event_log :
                  event_log[i].type = "issue" =>
                      (event_log[i].resolved <=> event_log[i].resolution # None)

C27_Witness ==
    /\ Closed
    /\ Len(NullResolution(event_log)) = 2
    /\ CountType(event_log, "issue") = 3
    /\ \E i \in DOMAIN event_log :
          event_log[i].type = "issue" /\ event_log[i].resolution = ""
    /\ Len(UnresolvedEntries(report)) = 1
    /\ UnresolvedEntries(report)[1].issues = <<"slow", "broken">>

C27_WitnessNone ==
    /\ Closed
    /\ CountType(event_log, "issue") = 2
    /\ NullResolution(event_log) = <<>>
    /\ UnresolvedEntries(report) = <<>>

\* ------------------------------------------------------------------------
\* One session of handoffs and one repeated action, then its report
\* (ChainSpec)
\* ------------------------------------------------------------------------
MaxHandoffs == 6

ChainHandoff ==
    /\ phase = "open"
    /\ CountType(event_log, "handoff") < MaxHandoffs
    /\ RecordWithin(HandoffEvent("pm", "dev", "spec"),
                    MaxHandoffs + RetryLimit + 3)

ChainAction ==
    /\ phase = "open"
    /\ CountType(event_log, "agent_action") < RetryLimit + 1
    /\ RecordWithin(AgentActionEvent("pm", "build", Nothing),
                    MaxHandoffs + RetryLimit + 3)

ChainEndSession ==
    /\ phase = "open"
    /\ EndSessionWithin("success", MaxHandoffs + RetryLimit + 3)

ChainNext ==
    \/ ReportStartSession
    \/ ChainHandoff
    \/ ChainAction
    \/ ChainEndSession

ChainSpec == Init /\ [][ChainNext]_vars

\* C28: every report's recommendations end with the same three fixed
\* entries in the same order; the parallelization recommendation is there
\* exactly when the session has more than 5 handoffs, and then it is first.
C28_RecommendationsLayout ==
    Closed =>
        LET recs == report.recommendations
            n == Len(recs)
        IN  /\ n >= 3
            /\ SubSeq(recs, n - 2, n) =
                  <<[kind |-> "general",
                     text |-> "All agent interactions were logged successfully"],
                    [kind |-> "general",
                     text |-> "Review the handoff chain for potential optimizations"],
                    [kind |-> "general",
                     text |-> "Consider adding more granular checkpoints for better visibility"]>>
            /\ (\E i \in DOMAIN recs : recs[i].kind = "parallelize")
                  <=> CountType(event_log, "handoff") > 5
            /\ \A i \in DOMAIN recs : recs[i].kind = "parallelize" => i = 1

C28_Witness ==
    /\ Closed
    /\ CountType(event_log, "handoff") = 6
    /\ CountType(event_log, "agent_action") = 4
    /\ Len(report.recommendations) = 5
    /\ report.recommendations[1].kind = "parallelize"
    /\ report.recommendations[2].kind = "caching"

C28_WitnessFive ==
    /\ Closed
    /\ CountType(event_log, "handoff") = 5
    /\ Len(report.recommendations) = 3

\* ------------------------------------------------------------------------
\* One session of actions by two agents, then its report (StatsSpec)
\* ------------------------------------------------------------------------
MaxStatsActions == 6

\* an action and the metadata it is recorded with
StatsInputs == {<<"build", [duration_ms |-> 5000]>>, <<"test", Nothing>>}

StatsAction ==
    /\ phase = "open"
    /\ CountType(event_log, "agent_action") < MaxStatsActions
    /\ \E a \in ReportAgents, in \in StatsInputs :
          RecordWithin(AgentActionEvent(a, in[1], in[2]), MaxStatsActions + 2)

StatsEndSession ==
    /\ phase = "open"
    /\ EndSessionWithin("success", MaxStatsActions + 2)

StatsNext ==
    \/ ReportStartSession
    \/ StatsAction
    \/ StatsEndSession

StatsSpec == Init /\ [][StatsNext]_vars

\* C29: agent_statistics has one entry per agent with an agent_action
\* event; actions_count is the number of the agent's actions,
\* total_duration_ms the sum of their durations (missing counts 0), actions
\* the names of its first 5 actions at most, in log order; the counts add up
\* to the number of agent_action events and total_agents_involved is the
\* number of entries.
ActionIndexes(log, agent) ==
    {i \in DOMAIN log : log[i].type = "agent_action" /\ log[i].agent = agent}

RECURSIVE DurationSum(_, _)
DurationSum(log, idx) ==
    IF idx = {} THEN 0
    ELSE LET i == CHOOSE k \in idx : TRUE
             d == log[i].duration_ms
         IN  (IF d = NoDuration THEN 0 ELSE d) + DurationSum(log, idx \ {i})

RECURSIVE CountSum(_, _)
CountSum(stats, agents) ==
    IF agents = {} THEN 0
    ELSE LET a == CHOOSE k \in agents : TRUE
         IN  stats[a].actions_count + CountSum(stats, agents \ {a})

\* the action names of the first n events among idx, in log order
RECURSIVE FirstNames(_, _, _)
FirstNames(log, idx, n) ==
    IF idx = {} \/ n = 0 THEN <<>>
    ELSE LET i == CHOOSE k \in idx : \A j \in idx : k <= j
         IN  <<log[i].action>> \o FirstNames(log, idx \ {i}, n - 1)

C29_AgentStatistics ==
    Closed =>
        LET stats == report.agent_statistics
        IN  /\ DOMAIN stats =
                  {a \in ReportAgents : ActionIndexes(event_log, a) # {}}
            /\ \A a \in DOMAIN stats :
                  /\ stats[a].actions_count =
                         Cardinality(ActionIndexes(event_log, a))
                  /\ stats[a].total_duration_ms =
                         DurationSum(event_log, ActionIndexes(event_log, a))
                  /\ stats[a].actions =
                         FirstNames(event_log, ActionIndexes(event_log, a), 5)
            /\ CountSum(stats, DOMAIN stats) =
                  CountType(event_log, "agent_action")
            /\ report.summary.total_agents_involved = Cardinality(DOMAIN stats)

C29_Witness ==
    /\ Closed
    /\ Cardinality(ActionIndexes(event_log, "pm")) = 6
    /\ Len(report.agent_statistics["pm"].actions) = 5
    /\ report.agent_statistics["pm"].total_duration_ms = 10000
    /\ event_log[7].action = "build"

C29_WitnessTwoAgents ==
    /\ Closed
    /\ DOMAIN report.agent_statistics = {"pm", "dev"}
    /\ report.agent_statistics["pm"].actions_count = 2
    /\ report.agent_statistics["dev"].actions_count = 3
    /\ report.agent_statistics["dev"].actions = <<"test", "build", "test">>

\* ------------------------------------------------------------------------
\* run_full_pipeline (PipelineSpec)
\* ------------------------------------------------------------------------
QAThreshold == 50        \* if qa_score < 50
PreDeployMinScore == 70  \* DeployAgent: test_passed = test_score >= 70

QAScores == {49, 50, 69, 70}
\* str(e) of what a collaborator raises, and of the KeyError raised by
\* result["deployment_id"]
ErrorMessages == {"Feature not found", "Feature not yet developed"}
MissingKeyError == "'deployment_id'"
WriteError == "No space left on device"

\* QAAgent._determine_status
DetermineStatus(score) ==
    IF score >= 90 THEN "passed"
    ELSE IF score >= 70 THEN "passed_with_warnings"
    ELSE IF score >= 50 THEN "needs_improvement"
    ELSE "failed"

\* _run_qa_agent: the summary handed back by the testing stage
RunQaAgent(score) ==
    [overall_score |-> score,
     status |-> DetermineStatus(score),
     test_report |-> [summary |-> [overall_score |-> score,
                                   status |-> DetermineStatus(score)]]]

\* qa_result.get("test_report", {}).get("summary", {}).get("overall_score", 0)
QaScore(qa) == qa.test_report.summary.overall_score

QualityGateFailsInclusive(qa_score) == qa_score <= QAThreshold

QualityGateFails(qa_score) == qa_score < QAThreshold

\* _run_deploy_agent: DeployAgent.deploy raises, or deploys, or, when the
\* stored test score is under 70, returns the failed pre-deploy checks, which
\* carry no "deployment_id": result["deployment_id"] then raises KeyError
DeployOutcomes(qa) ==
    IF QaScore(qa) >= PreDeployMinScore
    THEN {"ok", "raise"}
    ELSE {"checks_failed", "raise"}

Outcomes == {"ok", "raise"}

\* a write to storage: it can fail only on faulty storage
WriteOutcomes == IF faulty THEN {TRUE, FALSE} ELSE {TRUE}

AddStep(res, step) == [res EXCEPT !.steps = Append(@, step)]

\* the except clause: status and error, an issue event, end_session("failed")
ExceptResults(res, msg) == [res EXCEPT !.status = "failed", !.error = msg]

ExceptLogNoIssue(log, msg) == EndSessionLog(log, "failed")

ExceptLog(log, msg) ==
    EndSessionLog(RecordEvent(log, IssueEvent("pipeline", "exception", msg, None)),
                  "failed")

\* The recorder after a pipeline step that left it with newlog, having made
\* ncalls recorder calls; ended says whether end_session was among them and
\* saved whether its report files were written.
Recorder(newlog, ncalls, ended, saved) ==
    /\ event_log' = newlog
    /\ calls' = calls + ncalls
    /\ phase' = IF ended THEN "ended" ELSE phase
    /\ report' = IF ended /\ saved THEN GenerateReport(newlog, session_id)
                 ELSE report
    /\ chronicle_files' = IF ended /\ saved
                          THEN chronicle_files \cup {session_id}
                          ELSE chronicle_files
    /\ UNCHANGED <<session_id, lock, started_from, sessions>>

ExceptRetries(log, ncalls, res, msg) ==
    /\ Recorder(log, ncalls, FALSE, FALSE)
    /\ results' = res
    /\ pc' = pc

\* A collaborator raised (or a statement of the try block did): the except
\* clause runs, then the run record is saved, unless end_session itself
\* raises inside the except clause and the error leaves run_full_pipeline.
Except(log, ncalls, res, msg) ==
    \E saved \in WriteOutcomes :
        /\ Recorder(ExceptLog(log, msg), ncalls + 2, TRUE, saved)
        /\ results' = ExceptResults(res, msg)
        /\ pc' = IF saved THEN "save" ELSE "escaped"

\* lines 61-76
RunStart ==
    /\ pc \in {"idle", "returned", "escaped"}
    /\ runs < MaxRuns
    /\ \E src \in BOOLEAN :
          /\ source_codebase' = src
          /\ pc' = IF src THEN "reverse_engineer" ELSE "web_scraper"
    /\ runs' = runs + 1
    /\ session_id' = "idea"
    /\ event_log' = StartSessionLog(event_log, "idea", "pipeline_run")
    /\ phase' = "open"
    /\ started_from' = phase
    /\ calls' = 1
    /\ sessions' = sessions + 1
    /\ results' = NoResults
    /\ qa_result' = Nothing
    /\ invoked' = <<>>
    /\ raised' = None
    /\ pipeline_writes' = 0
    /\ report' = Nothing
    /\ UNCHANGED <<lock, chronicle_files, faulty, thread_vars>>

\* A stage: its collaborator is called; when it returns, the step is added
\* to the run record and the stage's events are recorded (newlog: the log
\* after them, ncalls: how many), and the run moves on to next.
Stage(name, outcomes, newlog, ncalls, next) ==
    /\ pc = name
    /\ invoked' = Append(invoked, name)
    /\ \E o \in outcomes :
          \/ /\ o = "ok"
             /\ raised' = raised
             /\ results' = AddStep(results, name)
             /\ Recorder(newlog, ncalls, FALSE, FALSE)
             /\ pc' = next
          \/ /\ o = "raise"
             /\ raised' = name
             /\ \E msg \in ErrorMessages : Except(event_log, 0, results, msg)
          \/ /\ o = "checks_failed"
             /\ raised' = name
             /\ Except(event_log, 0, results, MissingKeyError)
    /\ UNCHANGED <<source_codebase, pipeline_writes, runs, faulty, thread_vars>>

\* lines 80-95
ReverseEngineerEvents(log) ==
    RecordEvent(log, AgentActionEvent("reverse_engineer", "analyze_codebase",
                                      [files_analyzed |-> 1]))

StageReverseEngineerThenScraper ==
    /\ qa_result' = qa_result
    /\ Stage("reverse_engineer", Outcomes, ReverseEngineerEvents(event_log), 1,
             "web_scraper")

StageReverseEngineer ==
    /\ qa_result' = qa_result
    /\ Stage("reverse_engineer", Outcomes, ReverseEngineerEvents(event_log), 1, "pm")

\* lines 98-116
WebScraperEventsNoAction(log) ==
    RecordEvent(log, HandoffEvent("web_scraper", "pm", "market_research_report"))

WebScraperEvents(log) ==
    RecordEvent(
        RecordEvent(log, AgentActionEvent("web_scraper", "market_research",
                                          [competitors_found |-> 1])),
        HandoffEvent("web_scraper", "pm", "market_research_report"))

StageWebScraper ==
    /\ qa_result' = qa_result
    /\ Stage("web_scraper", Outcomes, WebScraperEvents(event_log), 2, "pm")

\* lines 118-147
PMEvents(log) ==
    RecordEvent(
        RecordEvent(
            RecordEvent(
                RecordEvent(log, AgentActionEvent("pm", "create_specification",
                                                  [user_stories |-> 1])),
                DecisionEvent("pm", "Build with stack")),
            CheckpointEvent("specification", "success")),
        HandoffEvent("pm", "dev", "feature_specification"))

StagePM ==
    /\ qa_result' = qa_result
    /\ Stage("pm", Outcomes, PMEvents(event_log), 4, "dev")

\* lines 149-170
DevEventsHandoffFirst(log) ==
    RecordEvent(
        RecordEvent(
            RecordEvent(log, AgentActionEvent("dev", "generate_codebase",
                                              [files_generated |-> 1])),
            HandoffEvent("dev", "qa", "codebase")),
        CheckpointEvent("development", "success"))

DevEvents(log) ==
    RecordEvent(
        RecordEvent(
            RecordEvent(log, AgentActionEvent("dev", "generate_codebase",
                                              [files_generated |-> 1])),
            CheckpointEvent("development", "success")),
        HandoffEvent("dev", "qa", "codebase"))

StageDev ==
    /\ qa_result' = qa_result
    /\ Stage("dev", Outcomes, DevEvents(event_log), 3, "qa")

\* lines 172-186
QAEvents(log, qa) ==
    RecordEvent(
        RecordEvent(log, AgentActionEvent("qa", "test_feature",
                                          [score |-> qa.overall_score])),
        CheckpointEvent("testing", qa.status))

StageQA ==
    /\ pc = "qa"
    /\ invoked' = Append(invoked, "qa")
    /\ \/ \E score \in QAScores :
             /\ qa_result' = RunQaAgent(score)
             /\ raised' = raised
             /\ results' = AddStep(results, "qa")
             /\ Recorder(QAEvents(event_log, qa_result'), 2, FALSE, FALSE)
             /\ pc' = "gate"
       \/ /\ qa_result' = qa_result
          /\ raised' = "qa"
          /\ \E msg \in ErrorMessages : Except(event_log, 0, results, msg)
    /\ UNCHANGED <<source_codebase, pipeline_writes, runs, faulty, thread_vars>>

\* lines 188-205: the quality gate. Under the threshold the run records an
\* issue, closes the session as failed_qa and returns at once (line 205).
FailedQALog(log) ==
    EndSessionLog(
        RecordEvent(log, IssueEvent("qa", "low_test_score", "QA score low",
                                    "Pipeline halted for fixes")),
        "failed_qa")

GateHaltNoClose ==
    /\ Recorder(RecordEvent(event_log,
                            IssueEvent("qa", "low_test_score", "QA score low",
                                       "Pipeline halted for fixes")),
                1, FALSE, FALSE)
    /\ results' = [results EXCEPT !.status = "failed_qa"]
    /\ pc' = "returned"

GateHalt ==
    \E saved \in WriteOutcomes :
        IF saved
        THEN /\ Recorder(FailedQALog(event_log), 2, TRUE, TRUE)
             /\ results' = [results EXCEPT !.status = "failed_qa"]
             /\ pc' = "returned"
        ELSE Except(FailedQALog(event_log), 2,
                    [results EXCEPT !.status = "failed_qa"], WriteError)

QualityGate ==
    /\ pc = "gate"
    /\ IF QualityGateFails(QaScore(qa_result))
       THEN GateHalt
       ELSE /\ pc' = "deploy"
            /\ UNCHANGED <<results, chronicle_vars, history_vars>>
    /\ UNCHANGED <<source_codebase, qa_result, invoked, raised,
                   pipeline_writes, runs, faulty, thread_vars>>

\* lines 207-235
DeployEvents(log) ==
    RecordEvent(
        RecordEvent(
            RecordEvent(
                RecordEvent(log, AgentActionEvent("deploy", "deploy_application",
                                                  [environment |-> "local"])),
                HandoffEvent("deploy", "user", "deployed_application")),
            CheckpointEvent("deployment", "success")),
        CollaborationEvent(<<"web_scraper", "pm", "dev", "qa", "deploy">>,
                           "Full pipeline execution"))

StageDeploy ==
    /\ qa_result' = qa_result
    /\ Stage("deploy", DeployOutcomes(qa_result), DeployEvents(event_log), 4,
             "finish")

\* lines 237-246: status, feature_id, end_session("success"), the report
\* embedded in the run record
Finish ==
    /\ pc = "finish"
    /\ LET res == [results EXCEPT !.status = "success", !.feature_id = "feat"]
           log == EndSessionLog(event_log, "success")
       IN  \E saved \in WriteOutcomes :
              IF saved
              THEN /\ Recorder(log, 1, TRUE, TRUE)
                   /\ results' = [res EXCEPT !.chronicle = report']
                   /\ pc' = "save"
              ELSE Except(log, 1, res, WriteError)
    /\ UNCHANGED <<source_codebase, qa_result, invoked, raised,
                   pipeline_writes, runs, faulty, thread_vars>>

\* lines 260-266: the run record is written, then returned
SaveResults ==
    /\ pc = "save"
    /\ \E written \in WriteOutcomes :
          IF written
          THEN pipeline_writes' = pipeline_writes + 1 /\ pc' = "returned"
          ELSE pipeline_writes' = pipeline_writes /\ pc' = "escaped"
    /\ UNCHANGED <<source_codebase, results, qa_result, invoked, raised, runs,
                   faulty, chronicle_vars, history_vars, thread_vars>>

PipelineNext ==
    \/ RunStart
    \/ StageReverseEngineer
    \/ StageWebScraper
    \/ StagePM
    \/ StageDev
    \/ StageQA
    \/ QualityGate
    \/ StageDeploy
    \/ Finish
    \/ SaveResults

PipelineSpec == Init /\ [][PipelineNext]_vars

\* the same run on storage whose writes may fail (json.dump / open raising)
FaultyInit == Fresh /\ faulty = TRUE

FaultySpec == FaultyInit /\ [][PipelineNext]_vars

\* ------------------------------------------------------------------------
\* Claims about run_full_pipeline (PipelineSpec: writes to storage succeed)
\* ------------------------------------------------------------------------
Range(seq) == {seq[i] : i \in DOMAIN seq}

Tested == qa_result # Nothing

C2_WitnessPass ==
    /\ pc = "returned"
    /\ Tested
    /\ qa_result.overall_score = 50
    /\ "deploy" \in Range(invoked)

C3_WitnessStages ==
    [stage \in {"reverse_engineer", "web_scraper", "pm", "dev", "qa", "deploy"}
        |-> pc = "returned" /\ raised = stage]

\* C4: a run that returns has written its run record to storage exactly
\* once, whatever its terminal status.
C4_RunRecordWrittenOnce ==
    pc = "returned" => pipeline_writes = 1

C8_WitnessSuccess ==
    pc = "returned" /\ results.status = "success"

C8_WitnessFailed ==
    pc = "returned" /\ results.status = "failed"

\* C12: the steps of a run record are a prefix of first, pm, dev, qa, deploy,
\* where first is reverse_engineer when a source codebase was given and
\* web_scraper otherwise; a stage's collaborator is invoked only after the
\* collaborator of the stage before it has returned.
IsPrefix(s, t) == Len(s) <= Len(t) /\ \A i \in DOMAIN s : s[i] = t[i]

ExpectedStages ==
    <<IF source_codebase THEN "reverse_engineer" ELSE "web_scraper",
      "pm", "dev", "qa", "deploy">>

C12_StepsPrefixOfStageOrder ==
    pc # "idle" =>
        /\ IsPrefix(results.steps, ExpectedStages)
        /\ IsPrefix(invoked, ExpectedStages)
        /\ \A i \in DOMAIN invoked :
              i > 1 => /\ i - 1 \in DOMAIN results.steps
                       /\ results.steps[i - 1] = invoked[i - 1]

C12_Witness ==
    /\ pc = "returned"
    /\ source_codebase
    /\ results.steps = <<"reverse_engineer", "pm", "dev", "qa", "deploy">>

C12_WitnessPartial ==
    /\ pc = "returned"
    /\ ~source_codebase
    /\ results.steps = <<"web_scraper", "pm", "dev">>
    /\ invoked = <<"web_scraper", "pm", "dev", "qa">>

\* C13: in one run each stage's collaborator is invoked at most once, and
\* once a collaborator has raised no collaborator is invoked any more: the
\* one that raised stays the last one invoked.
C13_InvokedOnceNoneAfterRaise ==
    /\ \A i, j \in DOMAIN invoked : invoked[i] = invoked[j] => i = j
    /\ Len(invoked) <= 5
    /\ raised # None => Last(invoked) = raised

C13_Witness ==
    /\ pc = "returned"
    /\ raised = "pm"
    /\ invoked = <<"web_scraper", "pm">>
    /\ results.status = "failed"

\* C14: a returned run record carries the report of the end_session call
\* that closed the session whenever that call returned normally, on the
\* failed_qa path as on the success path.
C14_RecordCarriesReport ==
    (pc = "returned" /\ phase = "ended" /\ report # Nothing) =>
        results.chronicle = report

\* C15: a returned run record holds the feature_id whenever the
\* specification stage completed, also when the run ended failed_qa or
\* failed in development, testing or deployment.
C15_RecordCarriesFeatureId ==
    (pc = "returned" /\ "pm" \in Range(results.steps)) =>
        results.feature_id # None

\* C16: when writing the report files fails inside the end_session call of
\* the success or failed_qa path, the error leaves run_full_pipeline: no run
\* record is returned that holds the write error as a "failed" status.
C16_PersistenceErrorPropagates ==
    pc = "returned" => results.error # WriteError

\* C19: a run whose testing stage reported a score of 50 or more and in
\* which no collaborator raised returns with status success and the deploy
\* step in its record (scores 50 to 69 included).
NoCollaboratorRaised ==
    raised = None \/ (raised = "deploy" /\ results.error = MissingKeyError)

C19_PassedGateReachesSuccess ==
    (pc = "returned" /\ Tested /\ qa_result.overall_score >= QAThreshold
        /\ NoCollaboratorRaised) =>
        /\ results.status = "success"
        /\ Last(results.steps) = "deploy"

\* C20: for each of the stages pm, dev and deploy that completed, the log
\* holds the stage's agent_action, then its checkpoint, then its handoff.
CheckpointOf(stage) ==
    CASE stage = "pm" -> "specification"
      [] stage = "dev" -> "development"
      [] stage = "deploy" -> "deployment"

ActionAt(log, stage) ==
    CHOOSE i \in DOMAIN log :
        log[i].type = "agent_action" /\ log[i].agent = stage

CheckpointAt(log, stage) ==
    CHOOSE i \in DOMAIN log :
        log[i].type = "checkpoint" /\ log[i].stage = CheckpointOf(stage)

HandoffAt(log, stage) ==
    CHOOSE i \in DOMAIN log :
        log[i].type = "handoff" /\ log[i].from_agent = stage

Completed(stage) == pc # "idle" /\ stage \in Range(results.steps)

C20_ActionCheckpointHandoff ==
    \A stage \in {"pm", "dev", "deploy"} :
        Completed(stage) =>
            /\ ActionAt(event_log, stage) < CheckpointAt(event_log, stage)
            /\ CheckpointAt(event_log, stage) < HandoffAt(event_log, stage)

\* C20, amended: pm and dev record agent_action, checkpoint, handoff in that
\* order; deploy records agent_action, handoff, checkpoint.
C20_StageEventOrder ==
    /\ \A stage \in {"pm", "dev"} :
          Completed(stage) =>
              /\ ActionAt(event_log, stage) < CheckpointAt(event_log, stage)
              /\ CheckpointAt(event_log, stage) < HandoffAt(event_log, stage)
    /\ Completed("deploy") =>
          /\ ActionAt(event_log, "deploy") < HandoffAt(event_log, "deploy")
          /\ HandoffAt(event_log, "deploy") < CheckpointAt(event_log, "deploy")

C20_Witness ==
    /\ pc = "returned"
    /\ results.status = "success"
    /\ Completed("pm") /\ Completed("dev") /\ Completed("deploy")
    /\ HandoffAt(event_log, "deploy") + 1 = CheckpointAt(event_log, "deploy")

\* C21: for each two stages run one after the other, the log holds between
\* their agent_action events exactly one handoff from the earlier stage's
\* agent to the later stage's agent.
HandoffsBetween(log, from_agent, to_agent) ==
    {h \in DOMAIN log :
        /\ log[h].type = "handoff"
        /\ log[h].from_agent = from_agent
        /\ log[h].to_agent = to_agent
        /\ ActionAt(log, from_agent) < h
        /\ h < ActionAt(log, to_agent)}

C21_HandoffBetweenStages ==
    pc # "idle" =>
        \A k \in DOMAIN results.steps :
            k < Len(results.steps) =>
                Cardinality(HandoffsBetween(event_log, results.steps[k],
                                            results.steps[k + 1])) = 1

\* C22: when a run returns, the agent_action events of its session are, in
\* number and in order, the steps of its run record.
ActionAgentsInOrder(log) ==
    LET actions == OfType(log, "agent_action")
    IN  [i \in DOMAIN actions |-> actions[i].agent]

C22_OneActionPerStep ==
    pc = "returned" => ActionAgentsInOrder(event_log) = results.steps

C22_Witness ==
    /\ pc = "returned"
    /\ raised = "qa"
    /\ results.steps = <<"web_scraper", "pm", "dev">>
    /\ ActionAgentsInOrder(event_log) = <<"web_scraper", "pm", "dev">>

C22_WitnessFailedQA ==
    /\ pc = "returned"
    /\ results.status = "failed_qa"
    /\ Len(OfType(event_log, "agent_action")) = 4

\* C23: every checkpoint event of a run has a status among success, warning
\* and failure, the testing stage's checkpoint included.
C23_CheckpointStatusVocabulary ==
    \A i \in DOMAIN event_log :
        event_log[i].type = "checkpoint" =>
            event_log[i].status \in {"success", "warning", "failure"}

\* C30: in a successful run the agents listed in the collaboration event are
\* the agents that have an agent_action event in the session.
C30_CollaborationListsActors ==
    (pc = "returned" /\ results.status = "success") =>
        \A i \in DOMAIN event_log :
            event_log[i].type = "collaboration" =>
                Range(event_log[i].agents) = ActionAgents(event_log)

\* ------------------------------------------------------------------------
\* Threads calling record_* on one recorder (ThreadSpec). _record_event is
\* taken apart: acquire the lock, number the event, append it, release.
\* ------------------------------------------------------------------------
CallTags == <<"first", "second", "third", "fourth">>

ThreadEventKinds == {"agent_action", "decision"}

\* the event the k-th record_* call of thread t builds
ThreadEvent(t, k, kind) ==
    IF kind = "agent_action"
    THEN AgentActionEvent(t, CallTags[k], Nothing)
    ELSE DecisionEvent(t, CallTags[k])

\* with self.lock: blocks until no thread holds the lock
LockIgnored(t) == TRUE

LockAvailable(t) == lock = "free"

\* the session is started before the threads record into it
ThreadStartSession ==
    /\ phase = "never"
    /\ StartSessionStep

\* record_*: the event dict is built, _record_event is entered
BeginRecord(t) ==
    /\ phase = "open"
    /\ tpc[t] = "idle"
    /\ tcalls[t] < MaxThreadCalls
    /\ \E kind \in ThreadEventKinds :
          tev' = [tev EXCEPT ![t] = ThreadEvent(t, tcalls[t] + 1, kind)]
    /\ tcalls' = [tcalls EXCEPT ![t] = @ + 1]
    /\ tpc' = [tpc EXCEPT ![t] = "record"]
    /\ UNCHANGED <<chronicle_vars, history_vars, pipeline_vars, race_vars>>

\* line 202
AcquireLock(t) ==
    /\ tpc[t] = "record"
    /\ LockAvailable(t)
    /\ lock' = t
    /\ tpc' = [tpc EXCEPT ![t] = "number"]
    /\ UNCHANGED <<session_id, event_log, report, chronicle_files,
                   history_vars, pipeline_vars, tev, tcalls, race_vars>>

\* line 203
NumberEvent(t) ==
    /\ tpc[t] = "number"
    /\ tev' = [tev EXCEPT ![t] = @ @@ [sequence_number |-> Len(event_log) + 1]]
    /\ tpc' = [tpc EXCEPT ![t] = "append"]
    /\ UNCHANGED <<chronicle_vars, history_vars, pipeline_vars, tcalls,
                   race_vars>>

\* line 204
AppendEvent(t) ==
    /\ tpc[t] = "append"
    /\ event_log' = Append(event_log, tev[t])
    /\ tpc' = [tpc EXCEPT ![t] = "release"]
    /\ UNCHANGED <<session_id, lock, report, chronicle_files, history_vars,
                   pipeline_vars, tev, tcalls, race_vars>>

\* leaving the with block; record_* returns
ReleaseLock(t) ==
    /\ tpc[t] = "release"
    /\ lock' = "free"
    /\ tpc' = [tpc EXCEPT ![t] = "idle"]
    /\ calls' = calls + 1
    /\ UNCHANGED <<session_id, event_log, report, chronicle_files, phase,
                   started_from, sessions, pipeline_vars, tev, tcalls,
                   race_vars>>

ThreadNext ==
    \/ ThreadStartSession
    \/ \E t \in Threads : BeginRecord(t)
    \/ \E t \in Threads : AcquireLock(t)
    \/ \E t \in Threads : NumberEvent(t)
    \/ \E t \in Threads : AppendEvent(t)
    \/ \E t \in Threads : ReleaseLock(t)

ThreadSpec == Init /\ [][ThreadNext]_vars

\* ------------------------------------------------------------------------
\* Claims about concurrent recording (ThreadSpec)
\* ------------------------------------------------------------------------
EventTag(e) == IF e.type = "agent_action" THEN e.action ELSE e.decision

\* how often the k-th call of thread t is in the log
Appended(t, k) ==
    Cardinality({i \in DOMAIN event_log :
                    /\ event_log[i].type \in ThreadEventKinds
                    /\ event_log[i].agent = t
                    /\ EventTag(event_log[i]) = CallTags[k]})

\* the k-th call of thread t has passed its append
PastAppend(t, k) == k < tcalls[t] \/ tpc[t] \in {"release", "idle"}

\* C5: threads recording concurrently in one session: every event is
\* appended exactly once, and the i-th event of the log carries
\* sequence_number i (no number twice, none skipped, log order = number
\* order).
C5_ConcurrentAppendsOrdered ==
    /\ \A i \in DOMAIN event_log : event_log[i].sequence_number = i
    /\ \A t \in Threads : \A k \in 1..tcalls[t] :
          Appended(t, k) = IF PastAppend(t, k) THEN 1 ELSE 0
    /\ Len(event_log) <= 1 + MaxThreadCalls * Cardinality(Threads)

\* t1 holds the lock with its event numbered, t2 waits for the lock, and the
\* log already holds events of both
C5_Witness ==
    /\ tpc["t1"] = "append"
    /\ tpc["t2"] = "record"
    /\ lock = "t1"
    /\ Appended("t1", 1) = 1
    /\ Appended("t2", 1) = 1
    /\ event_log[2].agent = "t2"

\* ------------------------------------------------------------------------
\* Threads calling start_session, record_* and end_session on one recorder
\* (RaceSpec). A thread either runs a session of its own (start_session,
\* record_*, end_session: an orchestrator run on the shared recorder of
\* get_chronicle_agent) or only records. Its events carry its name, as the
\* events of a run carry the run's idea and feature id.
\* ------------------------------------------------------------------------
MaxRaceRecords == 1

\* start_session, lines 46-55: the fields are set, the log is rebound to a
\* new empty list (no lock is held), the session_start dict is built
RaceBeginStart(t) ==
    /\ tpc[t] = "idle"
    /\ tdone[t] = {}
    /\ tcalls[t] = 0
    /\ session_id' = t
    /\ event_log' = <<>>
    /\ tev' = [tev EXCEPT ![t] = SessionStartEvent(t, "pipeline_run")]
    /\ tpc' = [tpc EXCEPT ![t] = "record"]
    /\ phase' = "open"
    /\ started_from' = phase
    /\ sessions' = sessions + 1
    /\ UNCHANGED <<lock, report, chronicle_files, calls, pipeline_vars,
                   tcalls, race_vars>>

\* record_agent_action: nothing in it asks whether a session is open
RaceBeginRecord(t) ==
    /\ tpc[t] = "idle"
    /\ "end" \notin tdone[t]
    /\ tcalls[t] < MaxRaceRecords
    /\ tev' = [tev EXCEPT ![t] = ThreadEvent(t, tcalls[t] + 1, "agent_action")]
    /\ tcalls' = [tcalls EXCEPT ![t] = @ + 1]
    /\ tpc' = [tpc EXCEPT ![t] = "record"]
    /\ UNCHANGED <<chronicle_vars, history_vars, pipeline_vars, race_vars>>

\* end_session, lines 178-186: the session_end dict is built, total_events
\* read from the log before the lock is taken
RaceBeginEnd(t) ==
    /\ tpc[t] = "idle"
    /\ tdone[t] = {"start"}
    /\ tev' = [tev EXCEPT ![t] = SessionEndEvent("success", Len(event_log))]
    /\ tpc' = [tpc EXCEPT ![t] = "record"]
    /\ UNCHANGED <<chronicle_vars, history_vars, pipeline_vars, tcalls,
                   race_vars>>

\* leaving _record_event: start_session and record_* return, end_session
\* goes on to _generate_report
RaceRelease(t) ==
    /\ tpc[t] = "release"
    /\ lock' = "free"
    /\ tpc' = [tpc EXCEPT ![t] = IF tev[t].type = "session_end"
                                 THEN "summary" ELSE "idle"]
    /\ tdone' = [tdone EXCEPT ![t] = IF tev[t].type = "session_start"
                                     THEN {"start"} ELSE @]
    /\ UNCHANGED <<session_id, event_log, report, chronicle_files,
                   history_vars, pipeline_vars, tev, tcalls, tsum, treport>>

\* _generate_report, lines 229-262: the pass over the log that fills the
\* buckets, then session_id, the summary and agent_statistics
RaceSummary(t) ==
    /\ tpc[t] = "summary"
    /\ tsum' = [tsum EXCEPT ![t] = GenerateReport(event_log, session_id)]
    /\ tpc' = [tpc EXCEPT ![t] = "rest"]
    /\ UNCHANGED <<chronicle_vars, history_vars, pipeline_vars, tev, tcalls,
                   tdone, treport>>

\* lines 264-279 and 190-198: timeline, bottlenecks and recommendations read
\* the log again; the report is saved and returned
RaceReturn(t) ==
    /\ tpc[t] = "rest"
    /\ treport' = [treport EXCEPT ![t] =
                      [GenerateReport(event_log, session_id) EXCEPT
                          !.session_id = tsum[t].session_id,
                          !.summary = tsum[t].summary,
                          !.agent_statistics = tsum[t].agent_statistics]]
    /\ report' = treport'[t]
    /\ chronicle_files' = chronicle_files \cup {tsum[t].session_id}
    /\ phase' = "ended"
    /\ tdone' = [tdone EXCEPT ![t] = {"start", "end"}]
    /\ tpc' = [tpc EXCEPT ![t] = "idle"]
    /\ UNCHANGED <<session_id, event_log, lock, started_from, calls, sessions,
                   pipeline_vars, tev, tcalls, tsum>>

RaceNext ==
    \/ \E t \in Threads : RaceBeginStart(t)
    \/ \E t \in Threads : RaceBeginRecord(t)
    \/ \E t \in Threads : RaceBeginEnd(t)
    \/ \E t \in Threads : AcquireLock(t)
    \/ \E t \in Threads : NumberEvent(t)
    \/ \E t \in Threads : AppendEvent(t)
    \/ \E t \in Threads : RaceRelease(t)
    \/ \E t \in Threads : RaceSummary(t)
    \/ \E t \in Threads : RaceReturn(t)

RaceSpec == Init /\ [][RaceNext]_vars

\* ------------------------------------------------------------------------
\* Claims about start_session and end_session among threads (RaceSpec)
\* ------------------------------------------------------------------------
Quiet == \A t \in Threads : tpc[t] = "idle"

\* C24: when a start_session call interleaves with a record_* call of
\* another thread, the log of the new session, once the calls have
\* returned, begins with the session_start event numbered 1 and its events
\* are numbered 1..N in log order.
C24_StartSessionRaceKeepsNumbering ==
    (Quiet /\ \E t \in Threads : "start" \in tdone[t]) =>
        /\ event_log # <<>>
        /\ event_log[1].type = "session_start"
        /\ \A i \in DOMAIN event_log : event_log[i].sequence_number = i

\* C25: when a record_* call of another thread interleaves with
\* end_session, the report end_session returns is self-consistent: the
\* session_end event is the last event reported, its total_events is its
\* sequence_number minus 1, and summary.total_events is the number of
\* timeline entries.
C25_EndSessionRaceReportConsistent ==
    \A t \in Threads :
        treport[t] # Nothing =>
            /\ Last(treport[t].timeline).type = "session_end"
            /\ tev[t].total_events = tev[t].sequence_number - 1
            /\ treport[t].summary.total_events = Len(treport[t].timeline)

\* C26: two runs that overlap in time on the shared recorder: the report
\* each run's end_session returns holds every event the run recorded and no
\* event recorded by the other run.
C26_OverlappingRunsIsolated ==
    (\A u \in Threads : "start" \in tdone[u]) =>
        \A t \in Threads :
            treport[t] # Nothing =>
                /\ DOMAIN treport[t].agent_statistics \subseteq {t}
                /\ tcalls[t] > 0 =>
                      /\ t \in DOMAIN treport[t].agent_statistics
                      /\ treport[t].agent_statistics[t].actions_count
                            = tcalls[t]

====
